---- MODULE Spec2Model ----
(***************************************************************************)
(* CryptoScope front end: the observable store (js/state.js), the API      *)
(* client (js/api.js), the dashboard pagination controller and the detail  *)
(* page composer (js/ui.js, js/app.js).                                    *)
(*                                                                         *)
(* Seven specifications share the module's variables; each leaves the     *)
(* variables of the other parts at their initial values:                   *)
(*   SpecStore      setState / subscribe with arbitrary subscribers        *)
(*   SpecGateway    one gateway operation applied to one kind of response  *)
(*   SpecDashboard  dashboard.html: init, search, paging, fetch completion *)
(*   SpecRender     SpecDashboard with ui.renderDashboard called again     *)
(*   SpecDetail     coin.html: renderDetailFromUrl, from the first         *)
(*                  fetchPrices to the listeners of the range buttons      *)
(*   SpecRanges     coin.html once loaded: range clicks and their fetches  *)
(*   SpecValues     mapSymbolToCoin and the formatters, applied to the     *)
(*                  values a JSON body can hold                            *)
(***************************************************************************)
EXTENDS Integers, Sequences, FiniteSets, TLC

VARIABLES
    state,       \* state.js `state` (the fields the model follows)
    listeners,   \* state.js `listeners`: a Set, kept in insertion order
    stack,       \* activations of setState (a subscriber may call setState)
    lastCall,    \* the most recent subscriber call and what it was handed
    returned,    \* the most recent return of setState
    handles,     \* per subscriber, the first handle subscribe returned for it
    gwOp,        \* api.js: the gateway operation under call
    gwSymbol,    \* its symbol argument ("" when the caller has none)
    gwResp,      \* the HTTP exchange its last request met
    gwPage,      \* fetchAllSymbols: `page`
    gwAll,       \* fetchAllSymbols: `all.length`
    gwResult,    \* what the operation gave its caller
    pagination,  \* internal.pagination: pageSize, currentPage
    inflight,    \* loadCoinsPage calls awaiting fetchSymbolsPage, oldest first
    lastReq,     \* the request issued last
    view,        \* dashboard.html as renderDashboard last left it
    rendered,    \* the step just taken ended with ui.renderDashboard
    patched,     \* the fields handed to setState during the step just taken
    controls,    \* listeners on #rows-per-page-select, #pag-prev, #pag-next
    repeats,     \* calls of ui.renderDashboard made again on the same state
    entity,      \* coin.html?symbol=...: the symbol of the document shown
    dpc,         \* ui.renderDetailFromUrl: the await it stands at
    fetched,     \* what each source of the detail page has answered
    panels,      \* coin.html: what each panel shows
    cache,       \* internal.pricesByRange
    rangeCalls,  \* range clicks awaiting api.fetchPrices, oldest first
    netCalls,    \* price-series requests sent so far, per range key
    chart,       \* internal.detailRange, the chart, the header, the export handlers
    escaped,     \* an error has left renderDetailFromUrl or a range click
    selected,    \* the range button the user clicked last
    fnName,      \* a pure function of api.js or ui.js under call
    fnArg,       \* its argument
    fnOut        \* what it gave

storeVars == <<state, listeners, stack, lastCall, returned, handles>>
gatewayVars == <<gwOp, gwSymbol, gwResp, gwPage, gwAll, gwResult>>
dashVars == <<pagination, inflight, lastReq, view, rendered, patched, controls,
             repeats>>
detailVars == <<entity, dpc, fetched, panels, cache, rangeCalls, netCalls, chart,
               escaped, selected>>
valueVars == <<fnName, fnArg, fnOut>>

\* What the actions of one part leave alone.
outsideStore == <<gatewayVars, dashVars, detailVars, valueVars>>
outsideGateway == <<storeVars, dashVars, detailVars, valueVars>>
outsideDashboard == <<listeners, stack, lastCall, returned, handles, gatewayVars, detailVars,
                      valueVars>>
outsideDetail == <<storeVars, gatewayVars, dashVars, valueVars>>
outsideValues == <<storeVars, gatewayVars, dashVars, detailVars>>

vars == <<state, listeners, stack, lastCall, returned, handles,
          gwOp, gwSymbol, gwResp, gwPage, gwAll, gwResult,
          pagination, inflight, lastReq, view, rendered, patched, controls, repeats,
          entity, dpc, fetched, panels, cache, rangeCalls, netCalls, chart, escaped,
          selected,
          fnName, fnArg, fnOut>>

(***************************************************************************)
(* Bounds of the model.                                                    *)
(***************************************************************************)
MaxListeners == 3
MaxDepth == 2
MaxItems == 2
MaxPages == 3
MaxInflight == 2
MaxRangeCalls == 2
MaxNetCalls == 2
MaxRepeats == 2
MaxSnapshot == 6

(***************************************************************************)
(* js/state.js                                                             *)
(***************************************************************************)

\* An empty array of coins: it carries nothing of the request that produced it.
EmptyCoins == [page |-> 0, size |-> 0, q |-> "", n |-> 0]

\* state.js:7-23, the fields the application reads and writes.
InitialState ==
    [coins |-> EmptyCoins, filteredCoins |-> EmptyCoins, totalCoins |-> 0,
     topCoins |-> EmptyCoins, currentQuery |-> "", theme |-> "light"]

\* Object.assign(state, patch): every own key of patch replaces that key of
\* state, every other key of state stays.
Assign(s, patch) ==
    [f \in DOMAIN s \cup DOMAIN patch |->
        IF f \in DOMAIN patch THEN patch[f] ELSE s[f]]

\* The arguments setState may be called with: objects, and a value that is not
\* an object (null, a number, a string), which setState ignores.
StorePatches ==
    { [obj |-> TRUE, delta |-> [theme |-> "dark"]],
      [obj |-> TRUE, delta |-> [totalCoins |-> 1]],
      [obj |-> TRUE, delta |-> [totalCoins |-> 2, theme |-> "light"]],
      [obj |-> FALSE, delta |-> [theme |-> "dark"]] }

\* `!patch || typeof patch !== "object"`
IsPatchObject(p) == p.obj

\* The subscribers of the model: a function that returns, two that throw, and
\* one that calls setState itself before it returns.
Fns == { [id |-> 1, kind |-> "returns"], [id |-> 2, kind |-> "throws"],
         [id |-> 3, kind |-> "throws"], [id |-> 4, kind |-> "patches"] }

\* What a subscriber call was handed: (next, patch, prev), and post, the state
\* as the assignment of that activation left it.
NoCall == [called |-> FALSE, next |-> InitialState, patch |-> [theme |-> "light"],
           prev |-> InitialState, post |-> InitialState]
NoReturn == [kind |-> "none", called |-> <<>>, threw |-> FALSE]

InitStore ==
    /\ state = InitialState
    /\ listeners = <<>>
    /\ stack = <<>>
    /\ lastCall = NoCall
    /\ returned = NoReturn
    /\ handles = [fn \in Fns |-> "none"]

SeqRange(s) == { s[i] : i \in 1..Len(s) }
SeqWithout(s, x) == SelectSeq(s, LAMBDA y : y # x)

\* subscribe(fn): a Set keeps the first insertion of a member.
subscribe(ls, fn, isFunction) ==
    IF ~isFunction THEN ls
    ELSE IF fn \in SeqRange(ls) THEN ls
    ELSE Append(ls, fn)

\* The handle subscribe returns: listeners.delete(fn).
unsubscribe(ls, fn) == SeqWithout(ls, fn)

\* subscribe(fn) is called; for a function it returns a handle, and the
\* model keeps the first one each function got: "fresh" until it is called,
\* "spent" from then on.  For a value that is no function the handle does
\* nothing.
Subscribe(fn, isFunction) ==
    /\ stack = <<>>
    /\ Len(listeners) < MaxListeners
    /\ listeners' = subscribe(listeners, fn, isFunction)
    /\ handles' = IF isFunction /\ handles[fn] = "none"
                    THEN [handles EXCEPT ![fn] = "fresh"] ELSE handles
    /\ lastCall' = NoCall
    /\ returned' = NoReturn
    /\ UNCHANGED <<state, stack>>
    /\ UNCHANGED outsideStore

\* The handle kept for fn is called, for the first time or again.
Unsubscribe(fn) ==
    /\ stack = <<>>
    /\ handles[fn] # "none"
    /\ listeners' = unsubscribe(listeners, fn)
    /\ handles' = [handles EXCEPT ![fn] = "spent"]
    /\ lastCall' = NoCall
    /\ returned' = NoReturn
    /\ UNCHANGED <<state, stack>>
    /\ UNCHANGED outsideStore

\* A new activation of setState: prev is the copy taken before the assignment,
\* idx the position forEach has reached.
Frame(delta, prev, post) ==
    [patch |-> delta, prev |-> prev, post |-> post, idx |-> 1, called |-> <<>>,
     threw |-> FALSE]

\* setState(patch), lines 57-60: the guard, the copy and the assignment.
setStateAssign(s, p) == IF IsPatchObject(p) THEN Assign(s, p.delta) ELSE s

\* setState called from outside any notification.
SetState(p) ==
    /\ stack = <<>>
    /\ state' = setStateAssign(state, p)
    /\ lastCall' = NoCall
    /\ IF ~IsPatchObject(p)
         THEN /\ returned' = [NoReturn EXCEPT !.kind = "ignored"]
              /\ UNCHANGED <<listeners, stack>>
         ELSE /\ stack' = <<Frame(p.delta, state, setStateAssign(state, p))>>
              /\ returned' = NoReturn
              /\ UNCHANGED listeners
    /\ UNCHANGED handles
    /\ UNCHANGED outsideStore

\* The try/catch around one subscriber call: does the subscriber's error leave
\* setState?  It is caught and reported, so it never does.
SubscriberErrorUncaught(fn) == fn.kind = "throws"

SubscriberErrorEscapes(fn) == FALSE

\* One iteration of listeners.forEach in the innermost activation.
Notify ==
    /\ stack # <<>>
    /\ stack[Len(stack)].idx <= Len(listeners)
    /\ LET top == stack[Len(stack)]
           fn == listeners[top.idx]
           stepped == [top EXCEPT !.idx = @ + 1, !.called = Append(@, fn),
                                  !.threw = @ \/ fn.kind = "throws"]
           rest == SubSeq(stack, 1, Len(stack) - 1)
       IN  /\ lastCall' = [called |-> TRUE, next |-> state, patch |-> top.patch,
                           prev |-> top.prev, post |-> top.post]
           /\ IF SubscriberErrorEscapes(fn)
                THEN \* nothing catches the error: it ends every activation
                     /\ stack' = <<>>
                     /\ returned' = [kind |-> "raised", called |-> stepped.called,
                                     threw |-> TRUE]
                     /\ UNCHANGED <<state, listeners>>
                ELSE IF fn.kind = "patches" /\ Len(stack) < MaxDepth
                THEN \E p \in StorePatches :
                        /\ IsPatchObject(p)
                        /\ state' = setStateAssign(state, p)
                        /\ stack' = Append(Append(rest, stepped),
                                Frame(p.delta, state, setStateAssign(state, p)))
                        /\ UNCHANGED <<listeners, returned>>
                ELSE /\ stack' = Append(rest, stepped)
                     /\ UNCHANGED <<state, listeners, returned>>
    /\ UNCHANGED handles
    /\ UNCHANGED outsideStore

\* forEach is over: setState returns to its caller.
Return ==
    /\ stack # <<>>
    /\ stack[Len(stack)].idx > Len(listeners)
    /\ LET top == stack[Len(stack)]
       IN  /\ stack' = SubSeq(stack, 1, Len(stack) - 1)
           /\ returned' = [kind |-> "done", called |-> top.called,
                           threw |-> top.threw]
           /\ lastCall' = NoCall
           /\ UNCHANGED <<state, listeners>>
    /\ UNCHANGED handles
    /\ UNCHANGED outsideStore

NextStore ==
    \/ \E fn \in Fns, isFunction \in BOOLEAN : Subscribe(fn, isFunction)
    \/ \E fn \in Fns : Unsubscribe(fn)
    \/ \E p \in StorePatches : SetState(p)
    \/ Notify
    \/ Return

(***************************************************************************)
(* js/api.js                                                               *)
(***************************************************************************)

\* JSON values as the client tells them apart.
JNull == [j |-> "null"]
JArray(n, elem) == [j |-> "array", n |-> n, elem |-> elem]
JArrays == { JArray(n, e) : n \in 0..MaxItems, e \in {"object", "null"} }
\* An object.  Its `items` member is missing, an array, or something that is
\* neither (it has no map and no length); its `total` member is missing (or
\* null), or a number; `data` says whether it holds the members its panel
\* reads.
JObjects ==
    [j : {"object"},
     items : { [j |-> "undefined"], [j |-> "nonarray"] } \cup JArrays,
     total : { [has |-> FALSE, v |-> 0] } \cup
             { [has |-> TRUE, v |-> t] : t \in 0..(MaxItems * MaxPages) },
     data : BOOLEAN]
\* A body that res.json() cannot parse.
JInvalid == [j |-> "invalid"]
\* The bodies: one that does not parse, null, a scalar (a non-empty string, a
\* non-zero number), an array, an object.
Bodies == { JInvalid, JNull, [j |-> "scalar"] } \cup JArrays \cup JObjects

\* What fetch(url) meets: the promise rejects (no connection, CORS, DNS), or
\* a response arrives with res.ok and a body.
Rejected == [t |-> "reject", ok |-> FALSE, body |-> JNull]
Responses == { Rejected } \cup [t : {"http"}, ok : BOOLEAN, body : Bodies]

\* What an operation gives its caller.
Throw == [r |-> "throw"]
Value(v) == [r |-> "value", v |-> v]
Page(n, total) == [r |-> "page", coins |-> n, total |-> total]
List(n) == [r |-> "list", n |-> n]
Pending == [r |-> "pending"]

\* getJson(url): `await fetch(url)` stands outside the try, so a rejected fetch
\* rejects getJson; a response that is not ok, or whose body does not parse,
\* gives null.
getJson(resp) ==
    IF resp.t = "reject" THEN Throw
    ELSE IF ~resp.ok THEN Value(JNull)
    ELSE IF resp.body.j = "invalid" THEN Value(JNull)
    ELSE Value(resp.body)

\* `!payload`
Falsy(v) == v.j = "null"

\* normalizeSymbolsResponse(payload) for a payload that is not falsy.
\*   items = Array.isArray(payload) ? payload : payload?.items || []
\*   total = Array.isArray(payload) ? items.length
\*                                  : payload?.total ?? (items ? items.length : 0)
\* `len` is items.length, has = FALSE when it is undefined.
normalizeSymbolsResponse(payload) ==
    LET items == IF payload.j = "array" THEN payload
                 ELSE IF payload.j = "object" /\ payload.items.j # "undefined"
                   THEN payload.items
                 ELSE JArray(0, "object")
        len == IF items.j = "array" THEN [has |-> TRUE, v |-> items.n]
               ELSE [has |-> FALSE, v |-> 0]
        total == IF payload.j = "array" THEN len
                 ELSE IF payload.j = "object" /\ payload.total.has
                   THEN payload.total
                 ELSE len
    IN  [items |-> items, len |-> len, total |-> total]

\* api.fetchSymbolsPage: items.map throws when items is no array;
\* mapSymbolToCoin reads its argument with ?. and never throws.
fetchSymbolsPage(resp) ==
    LET got == getJson(resp)
    IN  IF got.r = "throw" THEN Throw
        ELSE IF Falsy(got.v) THEN Page(0, 0)
        ELSE LET norm == normalizeSymbolsResponse(got.v)
             IN  IF norm.items.j # "array" THEN Throw
                 ELSE Page(norm.items.n, norm.total.v)

\* api.fetchPrices: the comparator of payload.sort reads a.date and b.date, and
\* is called once the array holds two elements.
fetchPrices(symbol, resp) ==
    IF symbol = "" THEN List(0)
    ELSE LET got == getJson(resp)
         IN  IF got.r = "throw" THEN Throw
             ELSE IF got.v.j # "array" THEN List(0)
             ELSE IF got.v.elem = "null" /\ got.v.n >= 2 THEN Throw
             ELSE List(got.v.n)

\* api.fetchTechnical, fetchLstm, fetchSentiment, fetchOnchain, fetchSignal:
\* `if (!symbol) return null; return await getJson(...)`.
fetchPayload(symbol, resp) ==
    IF symbol = "" THEN Value(JNull) ELSE getJson(resp)

GatewayOps == {"fetchSymbolsPage", "fetchAllSymbols", "fetchPrices",
               "fetchTechnical", "fetchLstm", "fetchSentiment", "fetchOnchain",
               "fetchSignal"}

\* One round of the loop of api.fetchAllSymbols, from `all.length` = all:
\* stop tells whether the loop breaks, all is the new length.
fetchAllSymbolsRound(all, resp) ==
    LET got == getJson(resp)
    IN  IF got.r = "throw" THEN [threw |-> TRUE, stop |-> TRUE, all |-> all]
        ELSE IF Falsy(got.v) THEN [threw |-> FALSE, stop |-> TRUE, all |-> all]
        ELSE LET norm == normalizeSymbolsResponse(got.v)
                 more == all + norm.len.v
             IN  IF ~norm.len.has \/ norm.len.v = 0
                   THEN [threw |-> FALSE, stop |-> TRUE, all |-> all]
                 ELSE IF ~norm.total.has \/ norm.total.v = 0 \/ more >= norm.total.v
                   THEN [threw |-> FALSE, stop |-> TRUE, all |-> more]
                 ELSE [threw |-> FALSE, stop |-> FALSE, all |-> more]

InitGatewayIdle ==
    /\ gwOp = "fetchPrices"
    /\ gwSymbol = ""
    /\ gwResp = Rejected
    /\ gwPage = 1
    /\ gwAll = 0
    /\ gwResult = Pending

InitGateway ==
    /\ gwOp \in GatewayOps
    /\ gwSymbol \in {"", "BTC"}
    /\ gwResp = Rejected
    /\ gwPage = 1
    /\ gwAll = 0
    /\ gwResult = Pending

\* The request of a one-request operation is answered.
GatewayAnswer(resp) ==
    /\ gwResult = Pending
    /\ gwOp # "fetchAllSymbols"
    /\ gwResp' = resp
    /\ gwResult' = IF gwOp = "fetchSymbolsPage" THEN fetchSymbolsPage(resp)
                   ELSE IF gwOp = "fetchPrices" THEN fetchPrices(gwSymbol, resp)
                   ELSE fetchPayload(gwSymbol, resp)
    /\ UNCHANGED <<gwOp, gwSymbol, gwPage, gwAll>>
    /\ UNCHANGED outsideGateway

\* The request for page gwPage of fetchAllSymbols is answered.
GatewayAnswerAll(resp) ==
    /\ gwResult = Pending
    /\ gwOp = "fetchAllSymbols"
    /\ gwPage <= MaxPages
    /\ LET round == fetchAllSymbolsRound(gwAll, resp)
       IN  /\ gwResp' = resp
           /\ gwAll' = round.all
           /\ gwPage' = IF round.stop THEN gwPage ELSE gwPage + 1
           /\ gwResult' = IF round.threw THEN Throw
                          ELSE IF round.stop THEN List(round.all)
                          ELSE Pending
    /\ UNCHANGED <<gwOp, gwSymbol>>
    /\ UNCHANGED outsideGateway

NextGateway ==
    \/ \E resp \in Responses : GatewayAnswer(resp)
    \/ \E resp \in Responses : GatewayAnswerAll(resp)

(***************************************************************************)
(* js/ui.js, js/app.js: the dashboard                                      *)
(***************************************************************************)

\* The options of #rows-per-page-select the model selects (the third, 100,
\* pages the totals below as 50 does), and the default of getPaginationState.
PageSizes == {10, 50}
DefaultPageSize == 50

\* How many entries the backend may hold for a query when it is asked: none,
\* two pages of ten, three pages of ten.
BackendTotals == {0, 15, 25}

\* What the user may type into the search box.
SearchTexts == {"", "BTC", " BTC "}

\* String.prototype.trim on the texts above.
Trim(text) == IF text = " BTC " THEN "BTC" ELSE text

Min(a, b) == IF a < b THEN a ELSE b
Max(a, b) == IF a > b THEN a ELSE b
\* Math.max(1, Math.ceil(total / pageSize)), for total >= 0, pageSize > 0.
TotalPages(total, pageSize) == Max(1, (total + pageSize - 1) \div pageSize)

\* The backend holds `total` entries that match a query: the number of entries
\* on page `page` of them.
PageCount(total, page, size) == Min(size, Max(0, total - (page - 1) * size))

\* The exchanges a page request may meet: a failure, or one of the two shapes
\* of the entries endpoint, for a backend holding `total` matching entries.
PageResponses(req) ==
    { Rejected, [t |-> "http", ok |-> FALSE, body |-> JNull] } \cup
    { [t |-> "http", ok |-> TRUE,
       body |-> JArray(PageCount(total, req.page, req.size), "object")] :
         total \in BackendTotals } \cup
    { [t |-> "http", ok |-> TRUE,
       body |-> [j |-> "object",
                 items |-> JArray(PageCount(total, req.page, req.size), "object"),
                 total |-> [has |-> TRUE, v |-> total], data |-> TRUE]] :
         total \in BackendTotals }

\* The envelope of a backend that counts one entry fewer than the page it
\* returns: `payload.total ?? payload.count ?? items.length` takes its word.
UnderstatedResponses(req) ==
    { [t |-> "http", ok |-> TRUE,
       body |-> [j |-> "object",
                 items |-> JArray(PageCount(total, req.page, req.size), "object"),
                 total |-> [has |-> TRUE, v |-> PageCount(total, req.page, req.size) - 1],
                 data |-> TRUE]] :
         total \in { t \in BackendTotals : PageCount(t, req.page, req.size) > 0 } }

\* The coins of a page: n entries of the page the request asked for.
CoinsOf(req, n) ==
    IF n = 0 THEN EmptyCoins
    ELSE [page |-> req.page, size |-> req.size, q |-> req.q, n |-> n]

NoRequest == [page |-> 0, size |-> 0, q |-> ""]
Request(page, size, q) == [page |-> page, size |-> size, q |-> q]

NoView == [rows |-> EmptyCoins, cards |-> EmptyCoins, pager |-> FALSE,
           totalPages |-> 1, prevDisabled |-> TRUE, nextDisabled |-> TRUE]

\* app.loadCoinsPage after the await: does it take the snapshot of top coins?
\* `page === 1 && (!app.state.topCoins || !app.state.topCoins.length)`
CapturesTopOnEveryFirstPage(s, page) == page = 1

CapturesTop(s, page) == page = 1 /\ s.topCoins.n = 0

\* A loadCoinsPage whose catch leaves the Store as it is.
loadCoinsPageKeepingPage(s, req, result) ==
    IF result.r = "throw" THEN s
    ELSE LET coins == CoinsOf(req, result.coins)
             s1 == setStateAssign(s, [obj |-> TRUE,
                      delta |-> [coins |-> coins, filteredCoins |-> coins,
                                 totalCoins |-> result.total]])
         IN  IF CapturesTop(s1, req.page)
               THEN setStateAssign(s1, [obj |-> TRUE, delta |-> [topCoins |-> coins]])
             ELSE s1

\* app.loadCoinsPage(page, pageSize) from the completion of fetchSymbolsPage:
\* the state it leaves.  No subscriber is registered by the application, so
\* setState is its assignment.
loadCoinsPage(s, req, result) ==
    IF result.r = "throw"
      THEN setStateAssign(s, [obj |-> TRUE,
              delta |-> [coins |-> EmptyCoins, filteredCoins |-> EmptyCoins,
                         totalCoins |-> 0]])
    ELSE LET coins == CoinsOf(req, result.coins)
             s1 == setStateAssign(s, [obj |-> TRUE,
                      delta |-> [coins |-> coins, filteredCoins |-> coins,
                                 totalCoins |-> result.total]])
         IN  IF CapturesTop(s1, req.page)
               THEN setStateAssign(s1, [obj |-> TRUE, delta |-> [topCoins |-> coins]])
             ELSE s1

\* The fields app.loadCoinsPage hands to setState on that way.
loadCoinsPagePatches(s, req, result) ==
    {"coins", "filteredCoins", "totalCoins"} \cup
    (IF result.r # "throw" /\ CapturesTop(s, req.page) THEN {"topCoins"} ELSE {})

\* renderTopCards: the list the cards are drawn from.
renderTopCards(s) == IF s.topCoins.n > 0 THEN s.topCoins ELSE s.coins

\* ui.renderDashboard: the pagination state and the document it leaves.
renderDashboard(s, pg) ==
    LET coins == s.filteredCoins
        total == s.totalCoins
        pageSize == pg.pageSize
        totalPages == TotalPages(total, pageSize)
        page == Min(Max(pg.currentPage, 1), totalPages)
    IN  IF coins.n = 0
          THEN [pagination |-> pg,
                view |-> [NoView EXCEPT !.cards = renderTopCards(s)]]
        ELSE [pagination |-> [pg EXCEPT !.currentPage = page],
              view |-> [rows |-> coins, cards |-> renderTopCards(s),
                        pager |-> TRUE, totalPages |-> totalPages,
                        prevDisabled |-> page <= 1,
                        nextDisabled |-> page >= totalPages]]

\* ui.renderDashboard with rows to show: the figures of "Showing start-end of
\* total" and the numbers of the first and last row of the table, from
\* `startIndex = (page - 1) * pageSize`,
\* `endIndex = Math.min(startIndex + coins.length, total)` and
\* `globalIndex = startIndex + idx + 1`.
ShowingFigures(s, pg) ==
    LET total == s.totalCoins
        page == Min(Max(pg.currentPage, 1), TotalPages(total, pg.pageSize))
        startIndex == (page - 1) * pg.pageSize
    IN  [start |-> startIndex + 1,
         end |-> Min(startIndex + s.filteredCoins.n, total),
         total |-> total,
         rows |-> s.filteredCoins.n,
         firstRow |-> startIndex + 1,
         lastRow |-> startIndex + s.filteredCoins.n]

\* The listeners on the three controls of the pager after ui.renderDashboard:
\* `pagContainer.innerHTML = ...` makes new elements, each gets one
\* addEventListener; `pag.innerHTML = ""` leaves no control.
NoControls == [select |-> 0, prev |-> 0, next |-> 0]

PagerControlsStacked(old, pager) ==
    IF pager THEN [c \in DOMAIN old |-> old[c] + 1] ELSE old

PagerControls(old, pager) ==
    IF pager THEN [c \in DOMAIN old |-> 1] ELSE NoControls

\* window load on dashboard.html: app.init() has set internal.pagination and
\* called loadCoinsPage(1, 50); nothing is rendered yet.
InitDashboard ==
    /\ pagination = [pageSize |-> DefaultPageSize, currentPage |-> 1]
    /\ inflight = <<Request(1, DefaultPageSize, "")>>
    /\ lastReq = Request(1, DefaultPageSize, "")
    /\ view = NoView
    /\ rendered = FALSE
    /\ patched = {}
    /\ controls = NoControls
    /\ repeats = 0

InitDashboardIdle ==
    /\ pagination = [pageSize |-> DefaultPageSize, currentPage |-> 1]
    /\ inflight = <<>>
    /\ lastReq = NoRequest
    /\ view = NoView
    /\ rendered = FALSE
    /\ patched = {}
    /\ controls = NoControls
    /\ repeats = 0

\* app.loadCoinsPage(page, pageSize) up to its await: q is read now.
Issue(page, size, q) ==
    /\ inflight' = Append(inflight, Request(page, size, q))
    /\ lastReq' = Request(page, size, q)
    /\ rendered' = FALSE
    /\ patched' = {}
    /\ repeats' = 0
    /\ UNCHANGED controls

\* `const p = getPaginationState(); p.currentPage = 1;`
SearchKeepsPage(p) == p

SearchReset(p) == [p EXCEPT !.currentPage = 1]

\* ui.handleSearch(query) up to its await.
HandleSearch(text) ==
    /\ Len(inflight) < MaxInflight
    /\ state' = [state EXCEPT !.currentQuery = Trim(text)]
    /\ pagination' = SearchReset(pagination)
    /\ Issue(SearchReset(pagination).currentPage, pagination.pageSize, Trim(text))
    /\ UNCHANGED view
    /\ UNCHANGED outsideDashboard

\* `p.pageSize = v || 50; p.currentPage = 1;`
RowsChangedKeepingPage(p, v) ==
    [p EXCEPT !.pageSize = IF v = 0 THEN DefaultPageSize ELSE v]

RowsChanged(p, v) ==
    [pageSize |-> IF v = 0 THEN DefaultPageSize ELSE v, currentPage |-> 1]

\* The change listener of #rows-per-page-select, up to its await.
ChangeRows(v) ==
    /\ view.pager
    /\ Len(inflight) < MaxInflight
    /\ pagination' = RowsChanged(pagination, v)
    /\ Issue(RowsChanged(pagination, v).currentPage,
             RowsChanged(pagination, v).pageSize, state.currentQuery)
    /\ UNCHANGED <<state, view>>
    /\ UNCHANGED outsideDashboard

\* The click listener of #pag-prev, up to its await.
ClickPrev ==
    /\ view.pager /\ ~view.prevDisabled
    /\ Len(inflight) < MaxInflight
    /\ pagination.currentPage > 1
    /\ pagination' = [pagination EXCEPT !.currentPage = @ - 1]
    /\ Issue(pagination.currentPage - 1, pagination.pageSize, state.currentQuery)
    /\ UNCHANGED <<state, view>>
    /\ UNCHANGED outsideDashboard

\* The click listener of #pag-next, up to its await; totalPages is the value
\* of the render that made the button.
ClickNext ==
    /\ view.pager /\ ~view.nextDisabled
    /\ Len(inflight) < MaxInflight
    /\ pagination.currentPage < view.totalPages
    /\ pagination' = [pagination EXCEPT !.currentPage = @ + 1]
    /\ Issue(pagination.currentPage + 1, pagination.pageSize, state.currentQuery)
    /\ UNCHANGED <<state, view>>
    /\ UNCHANGED outsideDashboard

\* The fetch of the i-th pending loadCoinsPage settles: loadCoinsPage ends and
\* its caller goes on to ui.renderDashboard().
FetchComplete(i, resp) ==
    /\ i \in 1..Len(inflight)
    /\ LET req == inflight[i]
           result == fetchSymbolsPage(resp)
           s == loadCoinsPage(state, req, result)
           out == renderDashboard(s, pagination)
       IN  /\ resp \in PageResponses(req)
           /\ state' = s
           /\ pagination' = out.pagination
           /\ view' = out.view
           /\ inflight' = SubSeq(inflight, 1, i - 1) \o
                          SubSeq(inflight, i + 1, Len(inflight))
           /\ rendered' = TRUE
           /\ patched' = loadCoinsPagePatches(state, req, result)
           /\ controls' = PagerControls(controls, out.view.pager)
           /\ repeats' = 0
           /\ UNCHANGED lastReq
    /\ UNCHANGED outsideDashboard

\* The same completion, the answer being an envelope with an understated
\* total.
FetchCompleteUnderstated(i, resp) ==
    /\ i \in 1..Len(inflight)
    /\ LET req == inflight[i]
           result == fetchSymbolsPage(resp)
           s == loadCoinsPage(state, req, result)
           out == renderDashboard(s, pagination)
       IN  /\ resp \in UnderstatedResponses(req)
           /\ state' = s
           /\ pagination' = out.pagination
           /\ view' = out.view
           /\ inflight' = SubSeq(inflight, 1, i - 1) \o
                          SubSeq(inflight, i + 1, Len(inflight))
           /\ rendered' = TRUE
           /\ patched' = loadCoinsPagePatches(state, req, result)
           /\ controls' = PagerControls(controls, out.view.pager)
           /\ repeats' = 0
           /\ UNCHANGED lastReq
    /\ UNCHANGED outsideDashboard

\* ui.renderDashboard() is called again right after a render, the Store and
\* internal.pagination being what that render saw.
RenderAgain ==
    /\ rendered
    /\ repeats < MaxRepeats
    /\ LET out == renderDashboard(state, pagination)
       IN  /\ pagination' = out.pagination
           /\ view' = out.view
           /\ controls' = PagerControls(controls, out.view.pager)
    /\ repeats' = repeats + 1
    /\ patched' = {}
    /\ UNCHANGED <<state, inflight, lastReq, rendered>>
    /\ UNCHANGED outsideDashboard

NextDashboard ==
    \/ \E text \in SearchTexts : HandleSearch(text)
    \/ \E v \in PageSizes : ChangeRows(v)
    \/ ClickPrev
    \/ ClickNext
    \/ \E i \in DOMAIN inflight :
          \E resp \in PageResponses(inflight[i]) : FetchComplete(i, resp)

(***************************************************************************)
(* js/ui.js: the detail page                                               *)
(***************************************************************************)

\* The labels of the .range-btn buttons, which are the cache keys.
Ranges == {"1D", "1Y", "10Y"}
DefaultRange == "10Y"

\* The symbol of coin.html?symbol=..., and the symbols router.go can name.
DetailSymbol == "BTC"
Symbols == {"BTC", "ETH"}

Sources == {"prices", "technical", "lstm", "sentiment", "onchain", "signal"}
Triple == {"sentiment", "onchain", "signal"}

\* The exchanges a payload endpoint may meet.
PanelResponses ==
    { Rejected,
      [t |-> "http", ok |-> FALSE, body |-> JNull],
      [t |-> "http", ok |-> TRUE, body |-> JInvalid],
      [t |-> "http", ok |-> TRUE,
       body |-> [j |-> "object", items |-> [j |-> "undefined"],
                 total |-> [has |-> FALSE, v |-> 0], data |-> TRUE]],
      [t |-> "http", ok |-> TRUE,
       body |-> [j |-> "object", items |-> [j |-> "undefined"],
                 total |-> [has |-> FALSE, v |-> 0], data |-> FALSE]] }

\* The exchanges the price-series endpoint may meet.
PriceResponses ==
    { Rejected,
      [t |-> "http", ok |-> FALSE, body |-> JNull],
      [t |-> "http", ok |-> TRUE, body |-> JInvalid] } \cup
    { [t |-> "http", ok |-> TRUE, body |-> JArray(n, "object")] : n \in 0..MaxItems }

\* What a source answered, as the panels tell it apart: the call threw, gave
\* null, gave an object with the members the panel reads, or one without.
Answer(result) ==
    IF result.r = "throw" THEN "throw"
    ELSE IF result.r = "list" THEN (IF result.n > 0 THEN "data" ELSE "empty")
    ELSE IF Falsy(result.v) THEN "null"
    ELSE IF result.v.j = "object" /\ result.v.data THEN "data"
    ELSE "nodata"

\* renderIndicatorsSection: `!tfs || !Object.keys(tfs).length` writes the
\* "No technical indicator data available" row.
renderIndicatorsSection(answer) ==
    IF answer = "data" THEN "data" ELSE "unavailable"

\* renderLstmSection: `!lstmPayload` writes the "not available" texts, any
\* other payload is laid out.
renderLstmSection(answer) ==
    IF answer = "null" THEN "unavailable" ELSE "data"

\* renderOnchainSentimentSection: each of its three parts is written under an
\* `if` with no else.
renderOnchainSentimentSection(shown, got) ==
    [shown EXCEPT
       !.sentiment = IF got.sentiment # "null" THEN "data" ELSE shown.sentiment,
       !.onchain = IF got.onchain = "data" THEN "data" ELSE shown.onchain,
       !.signal = IF got.signal = "data" THEN "data" ELSE shown.signal]

\* A slot of the cache without an entry, and a series of n points of the
\* prices of a symbol.
NoSeries == [has |-> FALSE, n |-> 0, of |-> ""]
Series(symbol, n) == [has |-> TRUE, n |-> n, of |-> symbol]

\* `let prices = internal.pricesByRange[cacheKey]; if (!prices)`: an array,
\* empty or not, is a hit.
CacheHit(c, key) == c[key].has

\* updateDetailHeader, renderDetailChart, attachDownloadButtons for a series.
\* The header writes its start date and its number of points under
\* `if (prices && prices.length)`: dataset is the range they were taken from.
ShowSeries(shown, key, series) ==
    [range |-> key, active |-> key, series |-> series, export |-> series,
     dataset |-> IF series.n > 0 THEN key ELSE shown.dataset]

\* window load on coin.html: app.init() is over, renderDetailFromUrl has set
\* detailRange to 10Y and awaits the first api.fetchPrices.
InitDetail ==
    /\ entity = DetailSymbol
    /\ dpc = "prices"
    /\ fetched = [src \in Sources |-> "pending"]
    /\ panels = [src \in Sources |-> "initial"]
    /\ cache = [r \in Ranges |-> NoSeries]
    /\ rangeCalls = <<>>
    /\ netCalls = [r \in Ranges |-> IF r = DefaultRange THEN 1 ELSE 0]
    /\ chart = [range |-> DefaultRange, active |-> "", series |-> NoSeries,
                export |-> NoSeries, dataset |-> ""]
    /\ escaped = FALSE
    /\ selected = DefaultRange

InitDetailIdle ==
    /\ entity = DetailSymbol
    /\ dpc = "off"
    /\ fetched = [src \in Sources |-> "pending"]
    /\ panels = [src \in Sources |-> "initial"]
    /\ cache = [r \in Ranges |-> NoSeries]
    /\ rangeCalls = <<>>
    /\ netCalls = [r \in Ranges |-> 0]
    /\ chart = [range |-> DefaultRange, active |-> "", series |-> NoSeries,
                export |-> NoSeries, dataset |-> ""]
    /\ escaped = FALSE
    /\ selected = DefaultRange

\* loadAndRenderDetailRange after its await: the series is stored and shown.
StoreAndShow(key, n) ==
    /\ cache' = [cache EXCEPT ![key] = Series(entity, n)]
    /\ chart' = ShowSeries(chart, key, Series(entity, n))
    /\ panels' = [panels EXCEPT !.prices = IF n > 0 THEN "data" ELSE "empty"]

\* The first fetchPrices settles.  `await loadAndRenderDetailRange(...)` is
\* outside every try: an error ends renderDetailFromUrl.
DetailPrices(resp) ==
    /\ dpc = "prices"
    /\ LET result == fetchPrices(entity, resp)
       IN  /\ fetched' = [fetched EXCEPT !.prices = Answer(result)]
           /\ IF result.r = "throw"
                THEN /\ dpc' = "rejected"
                     /\ escaped' = TRUE
                     /\ UNCHANGED <<panels, cache, chart>>
                ELSE /\ StoreAndShow(DefaultRange, result.n)
                     /\ dpc' = "technical"
                     /\ UNCHANGED escaped
    /\ UNCHANGED <<entity, rangeCalls, netCalls, selected>>
    /\ UNCHANGED outsideDetail

\* `try { renderIndicatorsSection(..., await api.fetchTechnical(...)) } catch {}`
DetailTechnical(resp) ==
    /\ dpc = "technical"
    /\ LET answer == Answer(fetchPayload(entity, resp))
       IN  /\ fetched' = [fetched EXCEPT !.technical = answer]
           /\ panels' = IF answer = "throw" THEN panels
                        ELSE [panels EXCEPT !.technical = renderIndicatorsSection(answer)]
    /\ dpc' = "lstm"
    /\ UNCHANGED <<entity, cache, rangeCalls, netCalls, chart, escaped, selected>>
    /\ UNCHANGED outsideDetail

\* `try { renderLstmSection(..., await api.fetchLstm(..., 30)) } catch {}`
DetailLstm(resp) ==
    /\ dpc = "lstm"
    /\ LET answer == Answer(fetchPayload(entity, resp))
       IN  /\ fetched' = [fetched EXCEPT !.lstm = answer]
           /\ panels' = IF answer = "throw" THEN panels
                        ELSE [panels EXCEPT !.lstm = renderLstmSection(answer)]
    /\ dpc' = "triple"
    /\ UNCHANGED <<entity, cache, rangeCalls, netCalls, chart, escaped, selected>>
    /\ UNCHANGED outsideDetail

\* One of the three fetches under Promise.all settles.  A rejection rejects
\* Promise.all at once and the catch is taken; the render runs when the last
\* of the three fulfils.  Either way the range buttons get their listeners.
DetailTriple(src, resp) ==
    /\ src \in Triple
    /\ fetched[src] = "pending"
    /\ dpc \in {"triple", "ready"}
    /\ LET answer == Answer(fetchPayload(entity, resp))
           got == [fetched EXCEPT ![src] = answer]
           settled == \A t \in Triple : got[t] # "pending"
       IN  /\ fetched' = got
           /\ IF dpc = "ready" THEN UNCHANGED <<dpc, panels>>
              ELSE IF answer = "throw"
                THEN dpc' = "ready" /\ UNCHANGED panels
              ELSE IF settled
                THEN /\ dpc' = "ready"
                     /\ panels' = renderOnchainSentimentSection(panels, got)
              ELSE UNCHANGED <<dpc, panels>>
    /\ UNCHANGED <<entity, cache, rangeCalls, netCalls, chart, escaped, selected>>
    /\ UNCHANGED outsideDetail

\* The click listener of a range button, up to the await of
\* loadAndRenderDetailRange; on a cache hit there is no await.
ClickRange(label) ==
    /\ dpc = "ready"
    /\ IF CacheHit(cache, label)
         THEN /\ chart' = ShowSeries(chart, label, cache[label])
              /\ panels' = [panels EXCEPT
                              !.prices = IF cache[label].n > 0 THEN "data" ELSE "empty"]
              /\ UNCHANGED <<rangeCalls, netCalls>>
         ELSE /\ Len(rangeCalls) < MaxRangeCalls
              /\ netCalls[label] < MaxNetCalls
              /\ chart' = [chart EXCEPT !.range = label]
              /\ rangeCalls' = Append(rangeCalls, label)
              /\ netCalls' = [netCalls EXCEPT ![label] = @ + 1]
              /\ UNCHANGED panels
    /\ selected' = label
    /\ UNCHANGED <<entity, dpc, fetched, cache, escaped>>
    /\ UNCHANGED outsideDetail

\* The fetchPrices of the i-th pending range click settles.
RangeSettle(i, resp) ==
    /\ i \in DOMAIN rangeCalls
    /\ LET label == rangeCalls[i]
           result == fetchPrices(entity, resp)
       IN  IF result.r = "throw"
             THEN /\ escaped' = TRUE
                  /\ UNCHANGED <<panels, cache, chart>>
           ELSE /\ StoreAndShow(label, result.n)
                /\ UNCHANGED escaped
    /\ rangeCalls' = SubSeq(rangeCalls, 1, i - 1) \o
                     SubSeq(rangeCalls, i + 1, Len(rangeCalls))
    /\ UNCHANGED <<entity, dpc, fetched, netCalls, selected>>
    /\ UNCHANGED outsideDetail

NextDetail ==
    \/ \E resp \in PriceResponses : DetailPrices(resp)
    \/ \E resp \in PanelResponses : DetailTechnical(resp)
    \/ \E resp \in PanelResponses : DetailLstm(resp)
    \/ \E src \in Triple, resp \in PanelResponses : DetailTriple(src, resp)

\* coin.html with renderDetailFromUrl over and every source answered with
\* data: the 10Y series is cached and shown, the range buttons are live.
InitRanges ==
    /\ entity = DetailSymbol
    /\ dpc = "ready"
    /\ fetched = [src \in Sources |-> "data"]
    /\ panels = [src \in Sources |-> "data"]
    /\ cache = [r \in Ranges |-> IF r = DefaultRange THEN Series(DetailSymbol, MaxItems)
                                ELSE NoSeries]
    /\ rangeCalls = <<>>
    /\ netCalls = [r \in Ranges |-> IF r = DefaultRange THEN 1 ELSE 0]
    /\ chart = [range |-> DefaultRange, active |-> DefaultRange,
                series |-> Series(DetailSymbol, MaxItems),
                export |-> Series(DetailSymbol, MaxItems),
                dataset |-> DefaultRange]
    /\ escaped = FALSE
    /\ selected = DefaultRange

NextRanges ==
    \/ \E label \in Ranges : ClickRange(label)
    \/ \E i \in 1..MaxRangeCalls, resp \in PriceResponses : RangeSettle(i, resp)

\* router.go("detail", {symbol}) assigns window.location.href: the document
\* and its module state go, pending fetches with them, and coin.html loads
\* for the symbol with `pricesByRange: null`.  The step ends with the new
\* document loaded: its 10Y series of n points answered, cached and shown.
Navigate(symbol, n) ==
    /\ dpc = "ready"
    /\ symbol # entity
    /\ entity' = symbol
    /\ cache' = [r \in Ranges |-> IF r = DefaultRange THEN Series(symbol, n)
                                 ELSE NoSeries]
    /\ chart' = ShowSeries([range |-> DefaultRange, active |-> "",
                            series |-> NoSeries, export |-> NoSeries,
                            dataset |-> ""],
                           DefaultRange, Series(symbol, n))
    /\ panels' = [src \in Sources |->
                    IF src = "prices" /\ n = 0 THEN "empty" ELSE "data"]
    /\ fetched' = [src \in Sources |->
                     IF src = "prices" /\ n = 0 THEN "empty" ELSE "data"]
    /\ rangeCalls' = <<>>
    /\ netCalls' = [r \in Ranges |-> IF r = DefaultRange THEN 1 ELSE 0]
    /\ escaped' = FALSE
    /\ selected' = DefaultRange
    /\ UNCHANGED dpc
    /\ UNCHANGED outsideDetail

NextNavigate ==
    \/ NextRanges
    \/ \E symbol \in Symbols, n \in 0..MaxItems : Navigate(symbol, n)

(***************************************************************************)
(* js/api.js, js/ui.js: values, mapSymbolToCoin and the formatters         *)
(***************************************************************************)

JsUndefined == [k |-> "undefined"]
JsNull == [k |-> "null"]
Num(n) == [k |-> "number", v |-> n]
NaN == [k |-> "NaN"]
Infinity == [k |-> "Infinity"]
Str(t) == [k |-> "string", t |-> t]
Bool(b) == [k |-> "boolean", b |-> b]

\* What a member of a parsed JSON body, or an argument, may be: undefined,
\* null, NaN, Infinity, [], {}, a number (a loss, zero, one, a price below and
\* one above the thousands separator), a text or a boolean.
Values ==
    { JsUndefined, JsNull, NaN, Infinity, [k |-> "array"], [k |-> "object"] } \cup
    { Num(n) : n \in {-5, 0, 1, 7, 2500} } \cup
    { Str(t) : t \in {"", " ", "7", "abc", "Infinity", "BUY", "strong_buy",
                      "bullish", "bearish", "hold"} } \cup
    { Bool(b) : b \in BOOLEAN }

\* Number(v), the conversion behind isNaN(v) as well: the empty string, a
\* string of white space, false, null and [] convert to 0, true to 1.
Number(v) ==
    CASE v.k = "number" -> v
      [] v.k = "NaN" -> NaN
      [] v.k = "Infinity" -> Infinity
      [] v.k = "undefined" -> NaN
      [] v.k = "null" -> Num(0)
      [] v.k = "boolean" -> IF v.b THEN Num(1) ELSE Num(0)
      [] v.k = "array" -> Num(0)
      [] v.k = "object" -> NaN
      [] v.k = "string" ->
           IF v.t \in {"", " "} THEN Num(0)
           ELSE IF v.t = "7" THEN Num(7)
           ELSE IF v.t = "Infinity" THEN Infinity
           ELSE NaN

isNaN(v) == Number(v) = NaN
\* `v == null`
IsNullish(v) == v.k \in {"null", "undefined"}

\* `raw?.price`
Member(raw, name) == IF raw.k = "entry" THEN raw[name] ELSE JsUndefined

\* `price = raw?.price != null ? Number(raw.price) : null;
\*  price: Number.isFinite(price) ? price : null`; Number.isFinite converts
\* nothing and is true of the numbers other than NaN and the infinities.
NumericField(v) ==
    IF IsNullish(v) THEN JsNull
    ELSE IF Number(v).k = "number" THEN Number(v) ELSE JsNull

mapSymbolToCoin(raw) ==
    [price |-> NumericField(Member(raw, "price")),
     change |-> NumericField(Member(raw, "change"))]

\* The placeholder of the formatters, an em dash (U+2014), and the sign
\* toLocaleString writes for Infinity (U+221E), in ASCII.
Placeholder == "--"
InfinitySign == "(inf)"

\* Texts of numbers.  The model's numbers are integers below a million.
Abs(n) == IF n < 0 THEN -n ELSE n
Sign(n) == IF n < 0 THEN "-" ELSE ""

\* n.toLocaleString("en-US", {minimumFractionDigits: f, maximumFractionDigits: 2}):
\* the digits with the separators of en-US.
toLocaleString(num, f) ==
    LET Pad3(n) == IF n < 10 THEN "00" \o ToString(n)
                   ELSE IF n < 100 THEN "0" \o ToString(n) ELSE ToString(n)
        Grouped(n) == IF n < 1000 THEN ToString(n)
                      ELSE ToString(n \div 1000) \o "," \o Pad3(n % 1000)
    IN  IF num.k = "Infinity" THEN InfinitySign
        ELSE Sign(num.v) \o Grouped(Abs(num.v)) \o (IF f = 2 THEN ".00" ELSE "")
\* n.toFixed(2)
toFixed2(num) ==
    IF num.k = "Infinity" THEN "Infinity" ELSE ToString(num.v) \o ".00"
\* n.toPrecision(6) for a number that is not zero
toPrecision6(num) ==
    LET Zeros(k) == IF k <= 0 THEN "" ELSE SubSeq("000000", 1, k)
        DigitCount(n) == IF n < 10 THEN 1 ELSE IF n < 100 THEN 2
                         ELSE IF n < 1000 THEN 3 ELSE IF n < 10000 THEN 4
                         ELSE IF n < 100000 THEN 5 ELSE 6
    IN  IF num.k = "Infinity" THEN "Infinity"
        ELSE Sign(num.v) \o ToString(Abs(num.v)) \o
             (IF DigitCount(Abs(num.v)) < 6
                THEN "." \o Zeros(6 - DigitCount(Abs(num.v)))
              ELSE "")

\* `n >= x`, `n > x`, `n === 0` for a number that is not NaN.
AtLeast(num, x) == num.k = "Infinity" \/ num.v >= x
IsZero(num) == num.k = "number" /\ num.v = 0

formatPrice(v) ==
    IF IsNullish(v) \/ isNaN(v) THEN Str(Placeholder)
    ELSE LET n == Number(v)
         IN  IF IsZero(n) THEN Str("$0.00")
             ELSE IF AtLeast(n, 1) THEN Str("$" \o toLocaleString(n, 2))
             ELSE Str("$" \o toPrecision6(n))

Formatted(text, cls) == [k |-> "object", text |-> text, cls |-> cls]

formatChange(ch) ==
    IF IsNullish(ch) \/ isNaN(ch) THEN Formatted(Placeholder, "")
    ELSE LET n == Number(ch)
         IN  Formatted((IF AtLeast(n, 0) THEN "+" ELSE "") \o toFixed2(n) \o "%",
                       IF AtLeast(n, 1) THEN "text-emerald-500 bg-emerald-500/10"
                       ELSE IF IsZero(n) THEN "text-gray-500 bg-gray-500/10"
                       ELSE "text-red-500 bg-red-500/10")

formatIndicatorValue(v) ==
    IF IsNullish(v) \/ isNaN(v) THEN Str(Placeholder)
    ELSE LET n == Number(v)
         IN  IF n.k = "Infinity" \/ Abs(n.v) >= 1000 THEN Str(toLocaleString(n, 0))
             ELSE Str(toFixed2(n))

\* formatSignal: `!signalRaw`, then String(signalRaw).toUpperCase() tested
\* with ===, includes("BULL"), includes("BEAR"), and replace("_", " "), on
\* the texts String can give here.
formatSignal(signalRaw) ==
    LET IsFalsy(v) ==
            \/ v.k \in {"undefined", "null", "NaN"}
            \/ v = Num(0) \/ v = Str("") \/ v = Bool(FALSE)
        String(v) ==
            CASE v.k = "string" -> v.t
              [] v.k = "number" -> ToString(v.v)
              [] v.k = "boolean" -> IF v.b THEN "true" ELSE "false"
              [] v.k = "array" -> ""
              [] v.k = "object" -> "[object Object]"
              [] OTHER -> v.k
        toUpperCase(t) ==
            CASE t = "abc" -> "ABC"
              [] t = "Infinity" -> "INFINITY"
              [] t = "strong_buy" -> "STRONG_BUY"
              [] t = "bullish" -> "BULLISH"
              [] t = "bearish" -> "BEARISH"
              [] t = "hold" -> "HOLD"
              [] t = "true" -> "TRUE"
              [] t = "false" -> "FALSE"
              [] t = "[object Object]" -> "[OBJECT OBJECT]"
              [] OTHER -> t
        Includes(t, part) ==
            \/ part = "BULL" /\ t = "BULLISH"
            \/ part = "BEAR" /\ t = "BEARISH"
        ReplaceUnderscore(t) == IF t = "STRONG_BUY" THEN "STRONG BUY" ELSE t
    IN  IF IsFalsy(signalRaw)
          THEN Formatted(Placeholder, "text-gray-500 bg-gray-500/10")
        ELSE LET t == toUpperCase(String(signalRaw))
             IN  Formatted(ReplaceUnderscore(t),
                    IF t \in {"BUY", "STRONG_BUY"} \/ Includes(t, "BULL")
                      THEN "text-emerald-500 bg-emerald-500/10"
                    ELSE IF t \in {"SELL", "STRONG_SELL"} \/ Includes(t, "BEAR")
                      THEN "text-red-500 bg-red-500/10"
                    ELSE IF t \in {"HOLD", "NEUTRAL"}
                      THEN "text-amber-500 bg-amber-500/10"
                    ELSE "text-gray-500 bg-gray-500/10")

\* formatUSDCompact: Intl.NumberFormat("en-US", {style: "currency",
\* currency: "USD", notation: "compact", maximumFractionDigits: 2}).format(n);
\* where Intl.NumberFormat does not take the compact notation its constructor
\* throws and the catch writes the plain number.
formatUSDCompact(v, compactSupported) ==
    LET Fraction2(h) == IF h = 0 THEN ""
                        ELSE IF h % 10 = 0 THEN "." \o ToString(h \div 10)
                        ELSE IF h < 10 THEN ".0" \o ToString(h)
                        ELSE "." \o ToString(h)
        CompactDigits(n) ==
            IF n < 1000 THEN ToString(n)
            ELSE LET h == ((n % 1000) + 5) \div 10
                 IN  IF h = 100 THEN ToString(n \div 1000 + 1) \o "K"
                     ELSE ToString(n \div 1000) \o Fraction2(h) \o "K"
        CompactCurrency(num) ==
            IF num.k = "Infinity" THEN "$" \o InfinitySign
            ELSE Sign(num.v) \o "$" \o CompactDigits(Abs(num.v))
    IN  IF IsNullish(v) \/ isNaN(v) THEN Str(Placeholder)
        ELSE IF compactSupported THEN Str(CompactCurrency(Number(v)))
        ELSE Str("$" \o toLocaleString(Number(v), 0))

\* Number.MAX_SAFE_INTEGER, here the greatest integer of the model checker.
MaxSafeInteger == 2147483647

\* `a.rank ?? Number.MAX_SAFE_INTEGER`, the rank being a number or missing.
RankOrZero(coin) == IF IsNullish(coin.rank) THEN 0 ELSE coin.rank.v

RankOrMax(coin) == IF IsNullish(coin.rank) THEN MaxSafeInteger ELSE coin.rank.v

\* allCoins.sort((a, b) => ra - rb): Array.prototype.sort is stable, an
\* element goes behind those the comparator does not put after it.
RECURSIVE SortByRank(_)
SortByRank(coins) ==
    IF coins = <<>> THEN <<>>
    ELSE LET sorted == SortByRank(SubSeq(coins, 1, Len(coins) - 1))
             last == coins[Len(coins)]
             before == { i \in 1..Len(sorted) :
                           RankOrMax(sorted[i]) - RankOrMax(last) <= 0 }
             k == Cardinality(before)
         IN  SubSeq(sorted, 1, k) \o <<last>> \o SubSeq(sorted, k + 1, Len(sorted))

\* renderTopCards: `allCoins.sort(...)`, `top = allCoins.slice(0, 5)`.
CardsShown == 5
TopCards(allCoins) ==
    LET sorted == SortByRank(allCoins)
    IN  SubSeq(sorted, 1, IF Len(sorted) < CardsShown THEN Len(sorted) ELSE CardsShown)

\* The snapshots the model gives renderTopCards: up to `longest` coins in
\* the order they were fetched, `id` being the place in that order.
Snapshots(longest) ==
    UNION { { [i \in 1..n |-> [id |-> i, rank |-> ranks[i]]] :
                ranks \in [1..n -> {JsNull, JsUndefined, Num(1), Num(2)}] } :
            n \in 0..longest }

NotCalled == [k |-> "not called"]

InitValuesIdle ==
    /\ fnName = "none"
    /\ fnArg = JsNull
    /\ fnOut = NotCalled

\* api.js maps one raw entry.
MapSymbolToCoin ==
    /\ fnName = "mapSymbolToCoin"
    /\ fnOut = NotCalled
    /\ fnOut' = mapSymbolToCoin(fnArg)
    /\ UNCHANGED <<fnName, fnArg>>
    /\ UNCHANGED outsideValues

FormatterNames == {"formatPrice", "formatChange", "formatIndicatorValue",
                   "formatSignal", "formatUSDCompact"}

\* One call of mapSymbolToCoin, on null or on a raw entry with the two
\* numeric members, of renderTopCards on a snapshot, or of a formatter is
\* about to be made.
InitValues ==
    /\ fnName \in {"mapSymbolToCoin", "renderTopCards"} \cup FormatterNames
    /\ fnArg \in IF fnName = "mapSymbolToCoin"
                 THEN { JsNull } \cup [k : {"entry"}, price : Values, change : Values]
                 ELSE IF fnName = "renderTopCards"
                 THEN [k : {"coins"}, list : Snapshots(MaxSnapshot)]
                 ELSE Values
    /\ fnOut = NotCalled

\* ui.js formats one value.
FormatPrice ==
    /\ fnName = "formatPrice"
    /\ fnOut = NotCalled
    /\ fnOut' = formatPrice(fnArg)
    /\ UNCHANGED <<fnName, fnArg>>
    /\ UNCHANGED outsideValues

FormatChange ==
    /\ fnName = "formatChange"
    /\ fnOut = NotCalled
    /\ fnOut' = formatChange(fnArg)
    /\ UNCHANGED <<fnName, fnArg>>
    /\ UNCHANGED outsideValues

FormatIndicatorValue ==
    /\ fnName = "formatIndicatorValue"
    /\ fnOut = NotCalled
    /\ fnOut' = formatIndicatorValue(fnArg)
    /\ UNCHANGED <<fnName, fnArg>>
    /\ UNCHANGED outsideValues

FormatSignal ==
    /\ fnName = "formatSignal"
    /\ fnOut = NotCalled
    /\ fnOut' = formatSignal(fnArg)
    /\ UNCHANGED <<fnName, fnArg>>
    /\ UNCHANGED outsideValues

FormatUSDCompact(compactSupported) ==
    /\ fnName = "formatUSDCompact"
    /\ fnOut = NotCalled
    /\ fnOut' = formatUSDCompact(fnArg, compactSupported)
    /\ UNCHANGED <<fnName, fnArg>>
    /\ UNCHANGED outsideValues

\* ui.js draws the summary cards of a snapshot.
RenderTopCards ==
    /\ fnName = "renderTopCards"
    /\ fnOut = NotCalled
    /\ fnOut' = [k |-> "cards", top |-> TopCards(fnArg.list)]
    /\ UNCHANGED <<fnName, fnArg>>
    /\ UNCHANGED outsideValues

NextValues ==
    \/ MapSymbolToCoin
    \/ RenderTopCards
    \/ FormatPrice
    \/ FormatChange
    \/ FormatIndicatorValue
    \/ FormatSignal
    \/ \E compactSupported \in BOOLEAN : FormatUSDCompact(compactSupported)

(***************************************************************************)
(* Specifications                                                          *)
(***************************************************************************)
InitStoreOnly == InitStore /\ InitGatewayIdle /\ InitDashboardIdle /\ InitDetailIdle /\ InitValuesIdle
SpecStore == InitStoreOnly /\ [][NextStore]_vars

InitGatewayOnly == InitStore /\ InitGateway /\ InitDashboardIdle /\ InitDetailIdle /\ InitValuesIdle
SpecGateway == InitGatewayOnly /\ [][NextGateway]_vars

InitDashboardOnly == InitStore /\ InitGatewayIdle /\ InitDashboard /\ InitDetailIdle /\ InitValuesIdle
SpecDashboard == InitDashboardOnly /\ [][NextDashboard]_vars

NextRender ==
    \/ NextDashboard
    \/ RenderAgain
SpecRender == InitDashboardOnly /\ [][NextRender]_vars

NextTotals ==
    \/ NextDashboard
    \/ \E i \in DOMAIN inflight :
          \E resp \in UnderstatedResponses(inflight[i]) : FetchCompleteUnderstated(i, resp)
SpecTotals == InitDashboardOnly /\ [][NextTotals]_vars

InitDetailOnly == InitStore /\ InitGatewayIdle /\ InitDashboardIdle /\ InitDetail /\ InitValuesIdle
SpecDetail == InitDetailOnly /\ [][NextDetail]_vars

InitValuesOnly == InitStore /\ InitGatewayIdle /\ InitDashboardIdle /\ InitDetailIdle /\ InitValues
SpecValues == InitValuesOnly /\ [][NextValues]_vars

InitRangesOnly == InitStore /\ InitGatewayIdle /\ InitDashboardIdle /\ InitRanges /\ InitValuesIdle
SpecRanges == InitRangesOnly /\ [][NextRanges]_vars

SpecNavigate == InitRangesOnly /\ [][NextNavigate]_vars

(***************************************************************************)
(* Claims                                                                  *)
(***************************************************************************)

\* C1: immediately after ui.renderDashboard completes,
\* 1 <= currentPage <= totalPages, with
\* totalPages = max(1, ceil(totalEntries / pageSize)).
C1_PageInBoundsAfterRender ==
    rendered =>
        /\ 1 <= pagination.currentPage
        /\ pagination.currentPage <= TotalPages(state.totalCoins, pagination.pageSize)

\* C2: once every page fetch has settled and the last render has run, the
\* entries in the Store are those of the request issued last, and currentPage
\* is within the bounds of the latest totalEntries.
C2_LastRequestWins ==
    (inflight = <<>> /\ rendered) =>
        /\ state.coins.n > 0 =>
              /\ state.coins.page = lastReq.page
              /\ state.coins.size = lastReq.size
              /\ state.coins.q = lastReq.q
        /\ pagination.currentPage <= TotalPages(state.totalCoins, pagination.pageSize)

\* C3: at most one price-series request is sent per range key, whatever
\* ranges are selected and re-selected.
C3_OneCallPerRange ==
    \A r \in Ranges : netCalls[r] <= 1

\* C4: a gateway operation never raises to its caller, and a transport
\* failure, a status that is not a success, or a body that does not parse
\* yields the operation's absent result for that call: the empty page, the
\* entries gathered so far, the empty series, or null.
C4_GatewayNeverRaises ==
    gwResult # Pending =>
        LET FailedExchange(resp) ==
                resp.t = "reject" \/ ~resp.ok \/ resp.body.j = "invalid"
            AbsentResult(op, all) ==
                IF op = "fetchSymbolsPage" THEN Page(0, 0)
                ELSE IF op = "fetchAllSymbols" THEN List(all)
                ELSE IF op = "fetchPrices" THEN List(0)
                ELSE Value(JNull)
        IN  /\ gwResult # Throw
            /\ FailedExchange(gwResp) => gwResult = AbsentResult(gwOp, gwAll)

\* renderDetailFromUrl is over, by return or by an error, and every fetch it
\* started has settled.
DetailFinished ==
    /\ dpc \in {"ready", "rejected"}
    /\ dpc = "ready" => \A t \in Triple : fetched[t] # "pending"

\* C5: when the forecast source fails while the indicators and sentiment
\* sources succeed, at the end of renderDetailFromUrl the indicators and
\* sentiment panels show their data and the forecast panel its "unavailable"
\* state.
C5_ForecastFailureIsolated ==
    (/\ DetailFinished
     /\ fetched.lstm \in {"throw", "null"}
     /\ fetched.technical = "data"
     /\ fetched.sentiment = "data")
    => /\ panels.technical = "data"
       /\ panels.sentiment = "data"
       /\ panels.lstm = "unavailable"

\* C6: at the end of renderDetailFromUrl every panel whose source failed or
\* gave nothing shows its own "unavailable" presentation (for the price panel:
\* the empty chart), every panel whose source gave data shows it, and no error
\* has left renderDetailFromUrl.
C6_EveryPanelSettles ==
    DetailFinished =>
        /\ ~escaped
        /\ \A src \in Sources :
              /\ fetched[src] = "data" => panels[src] = "data"
              /\ fetched[src] \in {"throw", "null", "empty"} =>
                    panels[src] \in {"unavailable", "empty"}

\* C7: setState(delta) replaces exactly the fields of delta, then calls every
\* subscribed listener once, in registration order, with
\* (newState, delta, previousState), newState being previousState overridden
\* by delta.
C7_PatchThenNotifyAll ==
    /\ \A i \in DOMAIN stack :
          stack[i].post = Assign(stack[i].prev, stack[i].patch)
    /\ returned.kind = "done" => returned.called = listeners
    /\ lastCall.called => lastCall.next = Assign(lastCall.prev, lastCall.patch)

\* C8: when a subscriber throws, every other subscriber is still called for
\* that patch, the mutation stays applied and setState returns normally.
C8_ThrowingSubscriberIsolated ==
    /\ returned.kind = "raised" => ~returned.threw
    /\ (returned.kind = "done" /\ returned.threw) => returned.called = listeners
    /\ \A i \in DOMAIN stack :
          (i = Len(stack) /\ stack[i].threw
             /\ \A k \in DOMAIN stack[i].called : stack[i].called[k].kind # "patches")
          => state = stack[i].post
C8_Witness ==
    /\ returned.kind = "done"
    /\ Len(returned.called) = 3
    /\ returned.called[1].kind = "throws"
    /\ returned.called[2].kind = "throws"
    /\ returned.called[3].kind = "returns"
    /\ state.theme = "dark"

\* C9: a listener that runs for patch P reads the state that P produced,
\* never a later one.
C9_ListenerSeesItsPatch ==
    lastCall.called => lastCall.next = lastCall.post

\* C10: once state.topCoins is a non-empty snapshot no search, paging,
\* page-size change or fetch completion changes it, and the summary cards are
\* drawn from it.
C10_TopCoinsFrozen ==
    /\ [][state.topCoins.n > 0 => state'.topCoins = state.topCoins]_vars
    /\ [](state.topCoins.n > 0 => view.cards = state.topCoins)
C10_Witness ==
    /\ state.topCoins.n > 0
    /\ state.coins.n > 0
    /\ state.coins.page = 2
    /\ state.coins.q = "BTC"
    /\ state.topCoins.q = ""
    /\ view.cards = state.topCoins

\* A step of the dashboard that issues a page request.
IssuesRequest == Len(inflight') = Len(inflight) + 1

\* C11: a page request is only issued for a page n with
\* 1 <= n <= totalPages, totalPages being max(1, ceil(totalEntries / pageSize))
\* for the Store's totalEntries and the page size in force, and currentPage
\* moves to n; a navigation outside that range issues nothing and leaves
\* currentPage and the Store as they are.
C11_NavigationStaysInRange ==
    [][IF IssuesRequest
         THEN /\ lastReq'.page = pagination'.currentPage
              /\ 1 <= lastReq'.page
              /\ lastReq'.page <= TotalPages(state.totalCoins, pagination'.pageSize)
         ELSE inflight' = inflight => (pagination' = pagination /\ state' = state)]_vars

\* C12: a change of the page size sets currentPage to 1 and issues a request
\* for page 1 with the new page size and the current query, whatever page and
\* size were in force.
C12_PageSizeChangeResetsPage ==
    [][pagination'.pageSize # pagination.pageSize =>
          /\ pagination'.currentPage = 1
          /\ IssuesRequest
          /\ lastReq' = Request(1, pagination'.pageSize, state.currentQuery)
          /\ inflight'[Len(inflight')] = lastReq']_vars
C12_Witness ==
    /\ state.coins.page = 2
    /\ state.coins.size = 10
    /\ pagination = [pageSize |-> 50, currentPage |-> 1]
    /\ inflight = <<Request(1, 50, state.currentQuery)>>

\* What a settled page request leaves in the Store: the page of the answer,
\* or nothing when there was none.
Settled(req, resp) ==
    LET result == fetchSymbolsPage(resp)
    IN  IF result.r = "throw" THEN [coins |-> EmptyCoins, total |-> 0]
        ELSE [coins |-> CoinsOf(req, result.coins), total |-> result.total]

\* C13: handleSearch(text) sets currentPage to 1 and issues a request for
\* page 1 carrying the trimmed text as the query; when that request settles
\* the Store's coins and totalCoins are those of its answer; topCoins, once
\* cached, is changed by neither step.
C13_SearchRefetchesFirstPage ==
    [][/\ \A text \in SearchTexts :
             HandleSearch(text) =>
                /\ pagination'.currentPage = 1
                /\ state'.currentQuery = Trim(text)
                /\ IssuesRequest
                /\ inflight'[Len(inflight')] =
                      Request(1, pagination.pageSize, Trim(text))
                /\ state'.topCoins = state.topCoins
       /\ \A i \in DOMAIN inflight :
             \A resp \in PageResponses(inflight[i]) :
                FetchComplete(i, resp) =>
                   /\ state'.coins = Settled(inflight[i], resp).coins
                   /\ state'.totalCoins = Settled(inflight[i], resp).total
                   /\ state.topCoins.n > 0 => state'.topCoins = state.topCoins]_vars
C13_Witness ==
    /\ state.currentQuery = "BTC"
    /\ state.coins.q = "BTC"
    /\ state.coins.page = 1
    /\ state.coins.size = 10
    /\ state.topCoins.n > 0
    /\ state.topCoins.q = ""
    /\ pagination.currentPage = 1
    /\ inflight = <<>>
    /\ rendered

\* C14: a field of the state changes only in a step that hands it to setState.
C14_StateChangesOnlyBySetState ==
    [][\A f \in DOMAIN InitialState : state'[f] # state[f] => f \in patched']_vars

\* C15: fetchSymbolsPage gives, for a bare array, its elements and its length
\* as total; for an object with an array `items` and a `total`, the items and
\* that total; for every other payload (no items, items that are no array, a
\* body that is no object, no body) the empty page with total 0, and it never
\* raises.  A response delivers no body when its status is no success or its
\* body does not parse.
C15_SymbolsPageNormalized ==
    (gwOp = "fetchSymbolsPage" /\ gwResult # Pending /\ gwResp.t = "http") =>
        LET body == IF gwResp.ok /\ gwResp.body.j # "invalid" THEN gwResp.body
                    ELSE JNull
        IN  IF body.j = "array" THEN gwResult = Page(body.n, body.n)
            ELSE IF body.j = "object" /\ body.items.j = "array"
              THEN body.total.has => gwResult = Page(body.items.n, body.total.v)
            ELSE gwResult = Page(0, 0)

\* C16: mapSymbolToCoin gives null, never zero, for a price or change that is
\* absent or does not parse as a finite number (null, undefined, NaN, an
\* infinity, a text that is no numeral), and the number itself for one that
\* does.
C16_UnknownNumericIsNull ==
    (fnName = "mapSymbolToCoin" /\ fnOut # NotCalled) =>
        \A f \in {"price", "change"} :
            LET v == Member(fnArg, f)
                Unparsable(x) ==
                    \/ x.k \in {"undefined", "null", "NaN", "Infinity"}
                    \/ x.k = "string" /\ x.t # "7"
            IN  /\ Unparsable(v) => fnOut[f] = JsNull
                /\ v.k = "number" => fnOut[f] = v
                /\ v = Str("7") => fnOut[f] = Num(7)

\* C17: formatPrice, formatChange, formatIndicatorValue and formatUSDCompact
\* give the placeholder for null, undefined and every input that is no number
\* (NaN, an object, a text that is no numeral), formatSignal gives it for null
\* and undefined, and no formatter gives a text that holds "NaN".
C17_FormattersGivePlaceholder ==
    (fnName \in FormatterNames /\ fnOut # NotCalled) =>
        LET TextOf(out) == IF out.k = "string" THEN out.t ELSE out.text
            NonNumeric(v) ==
                \/ v.k \in {"undefined", "null", "NaN", "object"}
                \/ v.k = "string" /\ v.t \notin {"7", "Infinity"}
        IN  /\ (fnName # "formatSignal" /\ NonNumeric(fnArg)) =>
                  TextOf(fnOut) = Placeholder
            /\ (fnName = "formatSignal" /\ IsNullish(fnArg)) =>
                  TextOf(fnOut) = Placeholder
            /\ TextOf(fnOut) \notin {"NaN", "$NaN", "+NaN%", "NaN%", "NAN"}

\* C18: subscribe(fn) registers fn, after the listeners already there, and a
\* patch made from then on calls it; the handle subscribe returned takes fn
\* out and leaves the other listeners and their order alone; calling that
\* handle again, or subscribing a value that is no function, changes nothing.
C18_SubscribeAndHandle ==
    /\ [][\A fn \in Fns :
            /\ Subscribe(fn, TRUE) =>
                  /\ fn \in SeqRange(listeners')
                  /\ SeqWithout(listeners', fn) = SeqWithout(listeners, fn)
            /\ Subscribe(fn, FALSE) => listeners' = listeners
            /\ (Unsubscribe(fn) /\ handles[fn] = "fresh") =>
                  /\ fn \notin SeqRange(listeners')
                  /\ listeners' = SeqWithout(listeners, fn)
            /\ (Unsubscribe(fn) /\ handles[fn] = "spent") =>
                  listeners' = listeners]_vars
    /\ [](returned.kind = "done" => returned.called = listeners)

\* C19: ui.renderDashboard called again on the same Store and pagination
\* leaves the rows, the pager, currentPage and the listeners as the first call
\* left them; whenever the pager is shown each of its three controls carries
\* one listener, so a change or click issues one request.
C19_RenderIdempotent ==
    /\ [][RenderAgain =>
            (view' = view /\ pagination' = pagination /\ controls' = controls)]_vars
    /\ [](controls = IF view.pager THEN [c \in DOMAIN NoControls |-> 1]
                     ELSE NoControls)
    /\ [][/\ (\E v \in PageSizes : ChangeRows(v)) =>
                Len(inflight') = Len(inflight) + controls.select
          /\ ClickPrev => Len(inflight') = Len(inflight) + controls.prev
          /\ ClickNext => Len(inflight') = Len(inflight) + controls.next]_vars
C19_Witness ==
    /\ repeats = MaxRepeats
    /\ view.pager
    /\ view.rows.page = 2
    /\ pagination.currentPage = 2
    /\ controls.next = 1
    /\ ~view.prevDisabled

\* C20: while renderDetailFromUrl runs, the fetch of every panel has been
\* launched whatever the other fetches are doing (a pending price-series,
\* indicators or forecast fetch holds back no launch), and a panel outside
\* the joined triple whose own fetch has answered has been rendered.
\* renderDetailFromUrl has called the api function of a source once it has
\* come to the await of that call, the three calls of the Promise.all being
\* made together.
C20_PanelsFanOut ==
    dpc \in {"prices", "technical", "lstm", "triple", "ready"} =>
        LET Launched(src) ==
                IF src = "prices" THEN TRUE
                ELSE IF src = "technical"
                  THEN dpc \in {"technical", "lstm", "triple", "ready"}
                ELSE IF src = "lstm" THEN dpc \in {"lstm", "triple", "ready"}
                ELSE dpc \in {"triple", "ready"}
        IN  /\ \A src \in Sources : Launched(src)
            /\ \A src \in Sources \ Triple :
                  fetched[src] \notin {"pending", "throw"} =>
                      panels[src] # "initial"

\* C21: the sentiment, on-chain and signal fetches are issued together; while
\* one of the three is pending none of their panels has been written; and
\* once all three have settled the joint render has run, whatever each
\* outcome: every one of the three panels whose source gave data shows it.
C21_TripleRendersJointly ==
    dpc \in {"triple", "ready"} =>
        /\ (\E t \in Triple : fetched[t] = "pending") =>
              \A t \in Triple : panels[t] = "initial"
        /\ (\A t \in Triple : fetched[t] # "pending") =>
              \A t \in Triple : fetched[t] = "data" => panels[t] = "data"

\* C22: a click on a range button, and the settling of the fetch it started,
\* ask nothing of the indicators, forecast, sentiment, on-chain and signal
\* sources and leave their panels as they were; when the step comes to its
\* end (a cache hit, or a fetch that gave a series) the chart, the active
\* range and the export handlers are those of the chosen range and the header
\* shows the dataset info of that range.
C22_RangeSwitchOnlyPrices ==
    [][LET Others == /\ fetched' = fetched
                     /\ dpc' = dpc
                     /\ \A src \in Sources \ {"prices"} :
                           panels'[src] = panels[src]
           Shows(label, series) ==
               /\ chart'.series = series
               /\ chart'.range = label
               /\ chart'.active = label
               /\ chart'.export = series
               /\ chart'.dataset = label
       IN  /\ \A label \in Ranges :
                 ClickRange(label) =>
                    /\ Others
                    /\ CacheHit(cache, label) => Shows(label, cache[label])
           /\ \A i \in DOMAIN rangeCalls :
                 \A resp \in PriceResponses :
                    RangeSettle(i, resp) =>
                       /\ Others
                       /\ fetchPrices(entity, resp).r # "throw" =>
                             Shows(rangeCalls[i],
                                   Series(entity, fetchPrices(entity, resp).n))]_vars

\* C23: fetchAllSymbols asks for the pages in order and appends the items of
\* each page it is given.  After a page with items it goes on to the next
\* page exactly when the entries gathered are fewer than the total the
\* backend reports, and a page without items ends it; a backend that sends
\* bare arrays reports no total, so a full page of a bare array (the backend
\* may hold more) is followed by the next page.  Every round that goes on has
\* added an entry, which with a finite total bounds the number of rounds.
C23_FetchAllGathersEveryPage ==
    [][\A resp \in Responses :
          (GatewayAnswerAll(resp) /\ resp.t = "http" /\ resp.ok) =>
             LET body == resp.body
                 goesOn == gwResult' = Pending
             IN  /\ gwPage' = IF goesOn THEN gwPage + 1 ELSE gwPage
                 /\ goesOn => gwAll' > gwAll
                 /\ ~goesOn => gwResult' = List(gwAll')
                 /\ (body.j = "array" /\ body.n = 0) => (~goesOn /\ gwAll' = gwAll)
                 /\ (body.j = "array" /\ body.n > 0) => gwAll' = gwAll + body.n
                 /\ (body.j = "array" /\ body.n = MaxItems) => goesOn
                 /\ (body.j = "object" /\ body.items.j = "array" /\ body.total.has) =>
                       /\ gwAll' = gwAll + body.items.n
                       /\ goesOn <=> (body.items.n > 0 /\ gwAll' < body.total.v)]_vars

\* C24: the cache holds, and the chart and the export handlers show, only
\* series of the symbol of the document shown, also after the symbol has
\* changed; and an entry stored under a range key stays as it was stored for
\* as long as that symbol is shown.
C24_CacheOfDisplayedEntity ==
    /\ [](/\ \A r \in Ranges : cache[r].has => cache[r].of = entity
          /\ chart.series.has => chart.series.of = entity
          /\ chart.export.has => chart.export.of = entity)
    /\ [][entity' = entity =>
            \A r \in Ranges : cache[r].has => cache'[r] = cache[r]]_vars

\* C25: the summary cards of a snapshot are at most 5 of its entries, each
\* once; they stand by ascending rank, an entry without rank after every
\* ranked one and entries of equal rank (or both without) in the order they
\* were fetched; and no entry left out comes before a card in that order.
C25_CardsAreFiveSmallestRanks ==
    (fnName = "renderTopCards" /\ fnOut # NotCalled) =>
        LET coins == fnArg.list
            top == fnOut.top
            Ranked(c) == c.rank.k = "number"
            Before(a, b) ==
                \/ Ranked(a) /\ ~Ranked(b)
                \/ Ranked(a) /\ Ranked(b) /\ a.rank.v < b.rank.v
                \/ Ranked(a) /\ Ranked(b) /\ a.rank.v = b.rank.v /\ a.id < b.id
                \/ ~Ranked(a) /\ ~Ranked(b) /\ a.id < b.id
            shown == { top[i] : i \in 1..Len(top) }
            all == { coins[i] : i \in 1..Len(coins) }
        IN  /\ Len(top) = (IF Len(coins) < 5 THEN Len(coins) ELSE 5)
            /\ shown \subseteq all
            /\ Cardinality(shown) = Len(top)
            /\ \A i \in 1..(Len(top) - 1) : Before(top[i], top[i + 1])
            /\ \A c \in all \ shown : \A d \in shown : Before(d, c)
C25_Witness ==
    /\ fnName = "renderTopCards"
    /\ fnOut # NotCalled
    /\ Len(fnArg.list) = 6
    /\ fnArg.list[1].rank = JsNull
    /\ fnArg.list[2].rank = Num(2)
    /\ fnArg.list[3].rank = JsUndefined
    /\ fnArg.list[4].rank = Num(2)
    /\ fnArg.list[5].rank = Num(1)
    /\ fnArg.list[6].rank = JsNull
    /\ [i \in 1..5 |-> fnOut.top[i].id] = <<5, 2, 4, 1, 3>>

\* C26: once every price-series fetch started by range clicks has settled,
\* the chart, the highlighted button, internal.detailRange and the export
\* handlers are those of the range the user clicked last, in whatever order
\* the fetches settled.
C26_LastSelectedRangeShown ==
    (dpc = "ready" /\ rangeCalls = <<>> /\ ~escaped) =>
        /\ chart.range = selected
        /\ chart.active = selected
        /\ chart.series = cache[selected]
        /\ chart.export = cache[selected]

\* C27: a price-series fetch that has come to its end has left an entry under
\* its range key, whatever the exchange was; an entry that holds the empty
\* series stays; and a click on a range that has an entry sends no request and
\* shows that entry.
C27_EmptySeriesCachedForGood ==
    [][/\ \A i \in DOMAIN rangeCalls :
             \A resp \in PriceResponses :
                RangeSettle(i, resp) => cache'[rangeCalls[i]].has
       /\ \A r \in Ranges :
             (cache[r].has /\ cache[r].n = 0) => cache'[r] = cache[r]
       /\ \A label \in Ranges :
             (ClickRange(label) /\ cache[label].has) =>
                /\ netCalls' = netCalls
                /\ rangeCalls' = rangeCalls
                /\ chart'.series = cache[label]
                /\ chart'.export = cache[label]]_vars

\* C28: whenever the dashboard has rendered a page with rows, the figures of
\* "Showing start-end of total" and the row numbers agree: 1 <= start <= end
\* <= total, end - start + 1 is the number of rows shown, and the rows are
\* numbered start..end; also when the backend's total is smaller than the
\* entries it returned or changed between fetches.
C28_ShowingFiguresConsistent ==
    (rendered /\ state.filteredCoins.n > 0) =>
        LET f == ShowingFigures(state, pagination)
        IN  /\ 1 <= f.start /\ f.start <= f.end /\ f.end <= f.total
            /\ f.end - f.start + 1 = f.rows
            /\ f.firstRow = f.start /\ f.lastRow = f.end

\* C29: loadCoinsPage never raises to its caller, which goes on to render;
\* when the page fetch fails (fetchSymbolsPage throws, or getJson gave null and
\* fetchSymbolsPage its absent result) coins and filteredCoins are empty and
\* totalCoins is 0 afterwards, and topCoins, currentQuery and every other
\* field of the Store are what they were.
C29_FailedPageClearsOnlyThePage ==
    [][\A i \in DOMAIN inflight : \A resp \in PageResponses(inflight[i]) :
          LET Failed == \/ fetchSymbolsPage(resp).r = "throw"
                        \/ /\ getJson(resp).r = "value"
                           /\ Falsy(getJson(resp).v)
          IN  Failed => (FetchComplete(i, resp) =>
                  /\ rendered'
                  /\ state'.coins = EmptyCoins
                  /\ state'.filteredCoins = EmptyCoins
                  /\ state'.totalCoins = 0
                  /\ \A f \in DOMAIN state \ {"coins", "filteredCoins", "totalCoins"} :
                         state'[f] = state[f])]_vars

\* A page was shown and its snapshot taken, and the Store has been left with
\* no page and the snapshot in place.
C29_Witness ==
    /\ rendered
    /\ state.coins = EmptyCoins /\ state.filteredCoins = EmptyCoins
    /\ state.totalCoins = 0
    /\ state.topCoins.n > 0
    /\ patched = {"coins", "filteredCoins", "totalCoins"}
    /\ Len(inflight) = 0

\* C30: topCoins is always empty or the entries of page 1 fetched with an
\* empty query, whatever the sequence of initial load, failed or empty
\* fetches, searches and page changes; and the cards of a rendered dashboard
\* show that snapshot, never the entries of the current page in its place.
C30_SnapshotOfUnfilteredFirstPage ==
    /\ state.topCoins.n > 0 => (state.topCoins.page = 1 /\ state.topCoins.q = "")
    /\ rendered => view.cards = state.topCoins

====
